---- MODULE Spec2Model ----
(***************************************************************************)
(* Model of the Medical Image Analysis API (src/main.py): the Response     *)
(* Normalizer parse_ai_response, the image-analysis handler, the Query     *)
(* Classifier / vector-search handler, and the patient endpoints (listing, *)
(* lookup by pid, analysis of one patient, text search).                   *)
(*                                                                         *)
(* Text is a sequence of one-character strings.  A Python value is a       *)
(* tagged record [t, v]: t is the Python type (str, int, float, NoneType,  *)
(* bool, list, dict), v the payload.                                       *)
(***************************************************************************)
EXTENDS Integers, Sequences, FiniteSets, TLC

(***************************************************************************)
(* Characters and the str methods used by the code.                        *)
(***************************************************************************)
Whitespace == {" ", "\n", "\t", "\r"}

Digits == {"0", "1", "2", "3", "4", "5", "6", "7", "8", "9"}

DigitVal(c) ==
    CASE c = "0" -> 0 [] c = "1" -> 1 [] c = "2" -> 2 [] c = "3" -> 3
      [] c = "4" -> 4 [] c = "5" -> 5 [] c = "6" -> 6 [] c = "7" -> 7
      [] c = "8" -> 8 [] c = "9" -> 9

\* s[i], or the empty string past the end of s (Python's s[i:i+1]).
At(s, i) == IF i >= 1 /\ i <= Len(s) THEN s[i] ELSE ""

\* s[i : i+n] of Python, with 1-based i.
Slice(s, i, n) ==
    LET hi == IF i + n - 1 <= Len(s) THEN i + n - 1 ELSE Len(s)
    IN  IF i > Len(s) THEN <<>> ELSE SubSeq(s, i, hi)

RECURSIVE SkipWs(_, _)
\* index of the first character at or after i that is not whitespace
SkipWs(s, i) == IF At(s, i) \in Whitespace THEN SkipWs(s, i + 1) ELSE i

RECURSIVE SkipWsBack(_, _)
SkipWsBack(s, i) == IF At(s, i) \in Whitespace THEN SkipWsBack(s, i - 1) ELSE i

RECURSIVE SkipDigits(_, _)
SkipDigits(s, i) == IF At(s, i) \in Digits THEN SkipDigits(s, i + 1) ELSE i

strip(s) ==
    LET a == SkipWs(s, 1)
        b == SkipWsBack(s, Len(s))
    IN  IF a > b THEN <<>> ELSE SubSeq(s, a, b)

startswith(s, p) == Len(p) <= Len(s) /\ SubSeq(s, 1, Len(p)) = p

endswith(s, p) == Len(p) <= Len(s) /\ SubSeq(s, Len(s) - Len(p) + 1, Len(s)) = p

RECURSIVE IntOfDigits(_, _)
\* int() of a run of decimal digits, acc the value of the digits read so far
IntOfDigits(ds, acc) ==
    IF ds = <<>> THEN acc
    ELSE IntOfDigits(Tail(ds), acc * 10 + DigitVal(Head(ds)))

\* str.lower on one character; the upper-case letters are those the queries use
lower(c) ==
    CASE c = "P" -> "p" [] c = "I" -> "i" [] c = "D" -> "d" [] c = "A" -> "a"
      [] c = "T" -> "t" [] c = "E" -> "e" [] c = "N" -> "n" [] c = "S" -> "s"
      [] c = "X" -> "x" [] c = "Y" -> "y"
      [] OTHER -> c

str_lower(s) == [i \in 1..Len(s) |-> lower(s[i])]

(***************************************************************************)
(* Python values.                                                          *)
(***************************************************************************)
PyStr(s) == [t |-> "str", v |-> s]

PyInt(n) == [t |-> "int", v |-> n]

PyFloat(lexeme) == [t |-> "float", v |-> lexeme]

PyNone == [t |-> "NoneType", v |-> <<>>]

PyBool(b) == [t |-> "bool", v |-> b]

PyList(items) == [t |-> "list", v |-> items]

\* a dict is the sequence of its (key, value) pairs in insertion order
PyDict(pairs) == [t |-> "dict", v |-> pairs]

RECURSIVE dict_set(_, _, _)
\* d[k] = val on the pair sequence: a key already present keeps its place
dict_set(pairs, k, val) ==
    IF pairs = <<>> THEN << <<k, val>> >>
    ELSE IF Head(pairs)[1] = k THEN << <<k, val>> >> \o Tail(pairs)
    ELSE <<Head(pairs)>> \o dict_set(Tail(pairs), k, val)

RECURSIVE dict_get(_, _, _)
\* dict.get(k, default)
dict_get(pairs, k, default) ==
    IF pairs = <<>> THEN default
    ELSE IF Head(pairs)[1] = k THEN Head(pairs)[2]
    ELSE dict_get(Tail(pairs), k, default)

(***************************************************************************)
(* json.loads, as the decoder of the standard library scans a document:    *)
(* scan_once dispatches on the next character, JSONObject and JSONArray    *)
(* read members, scanstring reads a string in strict mode.  A scan yields  *)
(* [ok, v, end]: ok = FALSE is JSONDecodeError, end is the index after the *)
(* value.  Hexadecimal escapes (backslash u) are outside the alphabet of   *)
(* the inputs below and are not decoded.                                   *)
(***************************************************************************)
Ok(val, end) == [ok |-> TRUE, v |-> val, end |-> end]

Fail == [ok |-> FALSE, v |-> PyNone, end |-> 0]

\* the escapes json.decoder.BACKSLASH maps; <BS> names U+0008
BACKSLASH ==
    [c \in {"\"", "\\", "/", "b", "f", "n", "r", "t"} |->
        CASE c = "\"" -> "\"" [] c = "\\" -> "\\" [] c = "/" -> "/"
          [] c = "b" -> "<BS>" [] c = "f" -> "\f" [] c = "n" -> "\n"
          [] c = "r" -> "\r" [] c = "t" -> "\t"]

\* characters below U+0020, which strict mode refuses inside a string
ControlChars == {"\n", "\t", "\r", "\f", "<BS>"}

RECURSIVE scanstring(_, _, _)
\* end is the index after the opening quote, acc the characters decoded so far
scanstring(s, end, acc) ==
    LET c == At(s, end)
    IN  IF c = "" THEN Fail
        ELSE IF c = "\"" THEN Ok(PyStr(acc), end + 1)
        ELSE IF c = "\\"
             THEN IF At(s, end + 1) \in DOMAIN BACKSLASH
                  THEN scanstring(s, end + 2, Append(acc, BACKSLASH[At(s, end + 1)]))
                  ELSE Fail
        ELSE IF c \in ControlChars THEN Fail
        ELSE scanstring(s, end + 1, Append(acc, c))

\* NUMBER_RE: (-?(?:0|[1-9]\d*))(\.\d+)?([eE][-+]?\d+)?
match_number(s, idx) ==
    LET j0 == IF At(s, idx) = "-" THEN idx + 1 ELSE idx
        intEnd == IF At(s, j0) = "0" THEN j0 + 1 ELSE SkipDigits(s, j0)
        hasFrac == At(s, intEnd) = "." /\ At(s, intEnd + 1) \in Digits
        fracEnd == IF hasFrac THEN SkipDigits(s, intEnd + 1) ELSE intEnd
        k0 == fracEnd + 1
        k1 == IF At(s, k0) \in {"+", "-"} THEN k0 + 1 ELSE k0
        hasExp == At(s, fracEnd) \in {"e", "E"} /\ At(s, k1) \in Digits
        expEnd == IF hasExp THEN SkipDigits(s, k1) ELSE fracEnd
        magnitude == IntOfDigits(SubSeq(s, j0, intEnd - 1), 0)
    IN  IF At(s, j0) \notin Digits THEN Fail
        ELSE IF hasFrac \/ hasExp
             THEN Ok(PyFloat(SubSeq(s, idx, expEnd - 1)), expEnd)
        ELSE Ok(PyInt(IF j0 > idx THEN 0 - magnitude ELSE magnitude), intEnd)

Lit_null == <<"n", "u", "l", "l">>

Lit_true == <<"t", "r", "u", "e">>

Lit_false == <<"f", "a", "l", "s", "e">>

Lit_NaN == <<"N", "a", "N">>

Lit_Infinity == <<"I", "n", "f", "i", "n", "i", "t", "y">>

RECURSIVE scan_once(_, _)
RECURSIVE ObjectMembers(_, _, _)
RECURSIVE ArrayItems(_, _, _)

\* end is the index after the opening brace
JSONObject(s, end) ==
    LET e == SkipWs(s, end)
    IN  IF At(s, e) = "}" THEN Ok(PyDict(<<>>), e + 1)
        ELSE IF At(s, e) = "\"" THEN ObjectMembers(s, e + 1, <<>>)
        ELSE Fail

\* one key: value member and what follows it; end is after the opening quote of the key
ObjectMembers(s, end, pairs) ==
    LET key == scanstring(s, end, <<>>)
        colon == SkipWs(s, key.end)
        val == scan_once(s, SkipWs(s, colon + 1))
        n == SkipWs(s, val.end)
        newpairs == dict_set(pairs, key.v.v, val.v)
        q == SkipWs(s, n + 1)
    IN  IF ~key.ok THEN Fail
        ELSE IF At(s, colon) # ":" THEN Fail
        ELSE IF ~val.ok THEN Fail
        ELSE IF At(s, n) = "}" THEN Ok(PyDict(newpairs), n + 1)
        ELSE IF At(s, n) # "," THEN Fail
        ELSE IF At(s, q) = "\"" THEN ObjectMembers(s, q + 1, newpairs)
        ELSE Fail

\* end is the index after the opening bracket
JSONArray(s, end) ==
    LET e == SkipWs(s, end)
    IN  IF At(s, e) = "]" THEN Ok(PyList(<<>>), e + 1)
        ELSE ArrayItems(s, e, <<>>)

ArrayItems(s, end, items) ==
    LET val == scan_once(s, end)
        n == SkipWs(s, val.end)
        newitems == Append(items, val.v)
    IN  IF ~val.ok THEN Fail
        ELSE IF At(s, n) = "]" THEN Ok(PyList(newitems), n + 1)
        ELSE IF At(s, n) # "," THEN Fail
        ELSE ArrayItems(s, SkipWs(s, n + 1), newitems)

scan_once(s, idx) ==
    LET nextchar == At(s, idx)
        m == match_number(s, idx)
    IN  IF nextchar = "" THEN Fail
        ELSE IF nextchar = "\"" THEN scanstring(s, idx + 1, <<>>)
        ELSE IF nextchar = "{" THEN JSONObject(s, idx + 1)
        ELSE IF nextchar = "[" THEN JSONArray(s, idx + 1)
        ELSE IF nextchar = "n" /\ Slice(s, idx, 4) = Lit_null THEN Ok(PyNone, idx + 4)
        ELSE IF nextchar = "t" /\ Slice(s, idx, 4) = Lit_true
             THEN Ok(PyBool(TRUE), idx + 4)
        ELSE IF nextchar = "f" /\ Slice(s, idx, 5) = Lit_false
             THEN Ok(PyBool(FALSE), idx + 5)
        ELSE IF m.ok THEN m
        ELSE IF nextchar = "N" /\ Slice(s, idx, 3) = Lit_NaN
             THEN Ok(PyFloat(Lit_NaN), idx + 3)
        ELSE IF nextchar = "I" /\ Slice(s, idx, 8) = Lit_Infinity
             THEN Ok(PyFloat(Lit_Infinity), idx + 8)
        ELSE IF nextchar = "-" /\ Slice(s, idx + 1, 8) = Lit_Infinity
             THEN Ok(PyFloat(<<"-">> \o Lit_Infinity), idx + 9)
        ELSE Fail

\* JSONDecoder.decode: one value between optional whitespace, nothing after it
json_loads(s) ==
    LET r == scan_once(s, SkipWs(s, 1))
    IN  IF ~r.ok THEN Fail
        ELSE IF SkipWs(s, r.end) # Len(s) + 1 THEN Fail
        ELSE r

(***************************************************************************)
(* re.search of the two fallback patterns: the quoted key, a colon, any    *)
(* whitespace, then a quoted group of characters other than a quote.       *)
(***************************************************************************)
RECURSIVE FindChar(_, _, _)
\* index of the first c at or after i, 0 if there is none
FindChar(s, i, c) ==
    IF i > Len(s) THEN 0
    ELSE IF s[i] = c THEN i
    ELSE FindChar(s, i + 1, c)

RECURSIVE re_search_quoted_no_ws(_, _, _)
\* mutant: the pattern allows no whitespace between the colon and the value
re_search_quoted_no_ws(lit, s, i) ==
    LET open == i + Len(lit)
        close == FindChar(s, open + 1, "\"")
    IN  IF i + Len(lit) - 1 > Len(s) THEN [found |-> FALSE, group |-> <<>>]
        ELSE IF Slice(s, i, Len(lit)) = lit /\ At(s, open) = "\"" /\ close # 0
             THEN [found |-> TRUE, group |-> SubSeq(s, open + 1, close - 1)]
        ELSE re_search_quoted_no_ws(lit, s, i + 1)

RECURSIVE re_search_quoted(_, _, _)
\* leftmost match of lit, whitespace, quoted group, at or after i: [found, group]
re_search_quoted(lit, s, i) ==
    LET open == SkipWs(s, i + Len(lit))
        close == FindChar(s, open + 1, "\"")
    IN  IF i + Len(lit) - 1 > Len(s) THEN [found |-> FALSE, group |-> <<>>]
        ELSE IF Slice(s, i, Len(lit)) = lit /\ At(s, open) = "\"" /\ close # 0
             THEN [found |-> TRUE, group |-> SubSeq(s, open + 1, close - 1)]
        ELSE re_search_quoted(lit, s, i + 1)

Key_patient_id == <<"p", "a", "t", "i", "e", "n", "t", "_", "i", "d">>

Key_prescription == <<"p", "r", "e", "s", "c", "r", "i", "p", "t", "i", "o", "n">>

\* the literal head of a fallback pattern: the quoted key and the colon
PatternHead(key) == <<"\"">> \o key \o <<"\"", ":">>

NotFound == <<"N", "o", "t", " ", "f", "o", "u", "n", "d">>

(***************************************************************************)
(* parse_ai_response.  The result is [exc, patient_id, prescription]: exc  *)
(* names the exception that leaves the function (empty when it returns).   *)
(***************************************************************************)
\* <grave> names U+0060, the character of a code fence
Fence == <<"<grave>", "<grave>", "<grave>">>

FenceJson == Fence \o <<"j", "s", "o", "n">>

\* mutant: the json tag of the opening fence is not removed
cleaned_analysis_tag_kept(analysis) ==
    LET c0 == strip(analysis)
        c2 == IF startswith(c0, Fence) THEN Slice(c0, 4, Len(c0)) ELSE c0
        c3 == IF endswith(c2, Fence) THEN SubSeq(c2, 1, Len(c2) - 3) ELSE c2
    IN  strip(c3)

cleaned_analysis(analysis) ==
    LET c0 == strip(analysis)
        c1 == IF startswith(c0, FenceJson) THEN Slice(c0, 8, Len(c0)) ELSE c0
        c2 == IF startswith(c1, Fence) THEN Slice(c1, 4, Len(c1)) ELSE c1
        c3 == IF endswith(c2, Fence) THEN SubSeq(c2, 1, Len(c2) - 3) ELSE c2
    IN  strip(c3)

Returned(patient_id, prescription) ==
    [exc |-> "", patient_id |-> patient_id, prescription |-> prescription]

Raised(exc) == [exc |-> exc, patient_id |-> PyNone, prescription |-> PyNone]

\* the except json.JSONDecodeError branch: two independent searches of the raw text
regex_fallback(analysis) ==
    LET patient_id_match == re_search_quoted(PatternHead(Key_patient_id), analysis, 1)
        prescription_match == re_search_quoted(PatternHead(Key_prescription), analysis, 1)
    IN  Returned(
            PyStr(IF patient_id_match.found THEN patient_id_match.group ELSE NotFound),
            PyStr(IF prescription_match.found THEN prescription_match.group ELSE NotFound))

parse_ai_response(analysis) ==
    LET parsed_data == json_loads(cleaned_analysis(analysis))
    IN  IF ~parsed_data.ok THEN regex_fallback(analysis)
        ELSE IF parsed_data.v.t # "dict" THEN Raised("AttributeError")
        ELSE Returned(dict_get(parsed_data.v.v, Key_patient_id, PyStr(NotFound)),
                      dict_get(parsed_data.v.v, Key_prescription, PyStr(NotFound)))

(***************************************************************************)
(* The replies of the vision model the analysis is run on.  A reply is     *)
(* [kind, text, has_x, x, has_y, y]: text is what the model answered, kind *)
(* says how the text was put together, and x, y are the patient_id and     *)
(* prescription values written into it (has_x, has_y: whether it has the   *)
(* entry at all).                                                          *)
(***************************************************************************)
MaxValLen == 2

\* what a JSON string holds, piece by piece: enc as written, dec as meant
Atoms ==
    { [enc |-> <<"a">>, dec |-> <<"a">>],
      [enc |-> <<"\\", "\"">>, dec |-> <<"\"">>],
      [enc |-> <<"\\", "n">>, dec |-> <<"\n">>] }

AtomSeqs(n) == UNION { [1..k -> Atoms] : k \in 0..n }

RECURSIVE Enc(_)
Enc(as) == IF as = <<>> THEN <<>> ELSE Head(as).enc \o Enc(Tail(as))

RECURSIVE Dec(_)
Dec(as) == IF as = <<>> THEN <<>> ELSE Head(as).dec \o Dec(Tail(as))

Quoted(s) == <<"\"">> \o s \o <<"\"">>

\* the object, written on one line or pretty-printed
ObjectText(layout, xenc, yenc) ==
    IF layout = "compact"
    THEN <<"{">> \o Quoted(Key_patient_id) \o <<":">> \o Quoted(xenc) \o <<",">>
         \o Quoted(Key_prescription) \o <<":">> \o Quoted(yenc) \o <<"}">>
    ELSE <<"{", "\n", " ", " ">> \o Quoted(Key_patient_id) \o <<":", " ">>
         \o Quoted(xenc) \o <<",", "\n", " ", " ">> \o Quoted(Key_prescription)
         \o <<":", " ">> \o Quoted(yenc) \o <<"\n", "}">>

YAtomSeqs ==
    { << [enc |-> <<"b">>, dec |-> <<"b">>] >>,
      << [enc |-> <<"c">>, dec |-> <<"c">>], [enc |-> <<"\\", "\\">>, dec |-> <<"\\">>] >> }

Reply(kind, text, has_x, x, has_y, y) ==
    [kind |-> kind, text |-> text, has_x |-> has_x, x |-> x, has_y |-> has_y, y |-> y]

\* a well-formed object, optionally fenced, between optional whitespace
FencedReplies ==
    { Reply("fenced_object",
            lead \o open \o inner \o ObjectText(layout, Enc(xs), Enc(ys))
                 \o inner \o close \o trail,
            TRUE, Dec(xs), TRUE, Dec(ys)) :
        lead \in {<<>>, <<"\n">>}, open \in {<<>>, Fence, FenceJson},
        inner \in {<<>>, <<"\n">>}, layout \in {"compact", "pretty"},
        xs \in AtomSeqs(MaxValLen), ys \in YAtomSeqs,
        close \in {<<>>, Fence}, trail \in {<<>>, <<" ", "\n">>} }

\* the characters a raw (unescaped) value is made of
RawChars == {"a", " ", "\\"}

RawSeqs(n) == UNION { [1..k -> RawChars] : k \in 0..n }

\* the quoted key, a colon, whitespace and the quoted value, or nothing
Entry(key, has, ws, val) ==
    IF has THEN Quoted(key) \o <<":">> \o ws \o Quoted(val) ELSE <<>>

\* prose around the two quoted entries, each of which may be missing
FragmentReplies ==
    { Reply("fragments",
            prose \o Entry(Key_patient_id, hx, ws, x) \o sep
                  \o Entry(Key_prescription, hy, ws, y) \o tail,
            hx, x, hy, y) :
        prose \in {<<>>, <<"H", "i", " ">>, <<"{">>},
        hx \in BOOLEAN, hy \in BOOLEAN, ws \in {<<>>, <<" ">>, <<"\n", " ">>},
        x \in RawSeqs(MaxValLen), y \in {<<"b">>, <<>>},
        sep \in {<<",">>, <<" ", "o", "r", " ">>}, tail \in {<<>>, <<"}">>} }

\* JSON values of every type, as written
ValueTexts ==
    { <<"5">>, <<"-", "1", ".", "5", "e", "3">>, Lit_null, Lit_true, Lit_NaN,
      <<"[", "]">>, <<"[", "1", ",", " ">> \o Quoted(<<"b">>) \o <<"]">>,
      <<"{">> \o Quoted(<<"a">>) \o <<":", "[", "1", "]", "}">>,
      Quoted(<<"b">>) }

\* an object whose two values are of any JSON type
TypedReplies ==
    { Reply("typed_object",
            open \o <<"{">> \o Quoted(Key_patient_id) \o <<":", " ">> \o xv \o <<",", " ">>
                 \o Quoted(Key_prescription) \o <<":", " ">> \o yv \o <<"}">> \o close,
            TRUE, <<>>, TRUE, <<>>) :
        xv \in ValueTexts, yv \in ValueTexts,
        open \in {<<>>, FenceJson \o <<"\n">>}, close \in {<<>>, <<"\n">> \o Fence} }

\* text with neither entry: JSON that is no object, an empty object, prose, nothing
BareReplies ==
    { Reply("bare", lead \o open \o body \o close, FALSE, <<>>, FALSE, <<>>) :
        lead \in {<<>>, <<" ">>}, open \in {<<>>, Fence, FenceJson \o <<"\n">>},
        body \in ValueTexts \cup { <<>>, <<"{", "}">>, <<"h", "e", "l", "l", "o">>,
                                   <<"0", "0", "7">>, <<"{", "5", "}">> },
        close \in {<<>>, Fence} }

\* an object that has only one of the two keys
PartialReplies ==
    { Reply("partial_object",
            <<"{">> \o Quoted(key) \o <<":">> \o Quoted(val) \o <<"}">>,
            key = Key_patient_id, val, key = Key_prescription, val) :
        key \in {Key_patient_id, Key_prescription}, val \in RawSeqs(1) \ {<<"\\">>} }

Replies == FencedReplies \cup FragmentReplies \cup TypedReplies \cup BareReplies
           \cup PartialReplies

NoReply == Reply("none", <<>>, FALSE, <<>>, FALSE, <<>>)

(***************************************************************************)
(* HTTP responses.  Text the program composes is a character sequence;     *)
(* fixed labels (search_type, status, the names of exceptions and of       *)
(* external calls) are strings.  The text of an exception raised by an     *)
(* external collaborator is not decided by this program: str(e) is one     *)
(* element named after the exception.  datetime.now() is the label Now.    *)
(***************************************************************************)
Now == "<now>"

ExcMessage(exc) == <<exc>>

AnalysisFailed == <<"A", "n", "a", "l", "y", "s", "i", "s", " ", "f", "a", "i", "l", "e", "d">>

ErrorPrefix ==
    <<"E", "r", "r", "o", "r", " ", "o", "c", "c", "u", "r", "r", "e", "d", " ",
      "d", "u", "r", "i", "n", "g", " ", "a", "n", "a", "l", "y", "s", "i", "s", ":", " ">>

MustBeImage ==
    <<"F", "i", "l", "e", " ", "m", "u", "s", "t", " ", "b", "e", " ", "a", "n", " ",
      "i", "m", "a", "g", "e">>

InternalErrorPrefix ==
    <<"I", "n", "t", "e", "r", "n", "a", "l", " ", "s", "e", "r", "v", "e", "r", " ",
      "e", "r", "r", "o", "r", ":", " ">>

ImageSlash == <<"i", "m", "a", "g", "e", "/">>

\* raise HTTPException(status_code, detail), as the server answers it
HTTPException(status_code, detail) ==
    [status |-> status_code, body |-> [detail |-> detail]]

\* JSONResponse(content): status 200 with the content as body
JSONResponse(content) == [status |-> 200, body |-> content]

RECURSIVE has_nonfinite(_)
RECURSIVE any_nonfinite(_, _)
\* json.dumps(allow_nan=False) of JSONResponse.render refuses NaN and the infinities
has_nonfinite(val) ==
    IF val.t = "float"
    THEN val.v \in {Lit_NaN, Lit_Infinity, <<"-">> \o Lit_Infinity}
    ELSE IF val.t = "list" THEN any_nonfinite(val.v, FALSE)
    ELSE IF val.t = "dict" THEN any_nonfinite(val.v, TRUE)
    ELSE FALSE

\* over the items of a list, or the values of the pairs of a dict
any_nonfinite(items, pairs) ==
    IF items = <<>> THEN FALSE
    ELSE \/ has_nonfinite(IF pairs THEN Head(items)[2] ELSE Head(items))
         \/ any_nonfinite(Tail(items), pairs)

(***************************************************************************)
(* POST /analyze-image.  What the collaborators do is the outcome          *)
(* [fails, reply]: fails names the call that raises (empty: none does),    *)
(* reply is the text the vision model answers with.                        *)
(***************************************************************************)
ContentTypes ==
    { PyNone, PyStr(<<>>), PyStr(ImageSlash \o <<"p", "n", "g">>),
      PyStr(<<"t", "e", "x", "t", "/", "p", "l", "a", "i", "n">>),
      PyStr(<<"I", "m", "a", "g", "e", "/", "p", "n", "g">>) }

ImageOutcomes ==
    { [fails |-> f, reply |-> NoReply] :
        f \in {"file.read", "Image.open", "generate_content", "response.text"} }
    \cup { [fails |-> "", reply |-> r] : r \in Replies }

\* mutant: the fallback object lacks the date
analysis_fallback_no_date(exc) ==
    [patient_id |-> PyStr(AnalysisFailed),
     prescription |-> PyStr(ErrorPrefix \o ExcMessage(exc))]

\* the except Exception branch of analyze_image_with_ai
analysis_fallback(exc) ==
    [analysis_date |-> Now,
     patient_id |-> PyStr(AnalysisFailed),
     prescription |-> PyStr(ErrorPrefix \o ExcMessage(exc))]

\* the object built from what parse_ai_response did: p is its result
analysis_result_of(p) ==
    IF p.exc # "" THEN analysis_fallback(p.exc)
    ELSE [analysis_date |-> Now,
          patient_id |-> p.patient_id,
          prescription |-> p.prescription]

analyze_image_with_ai(outcome) ==
    IF outcome.fails # "" THEN analysis_fallback(outcome.fails)
    ELSE analysis_result_of(parse_ai_response(outcome.reply.text))

\* not file.content_type or not file.content_type.startswith("image/")
content_type_refused(content_type) ==
    \/ content_type.t = "NoneType"
    \/ content_type.v = <<>>
    \/ ~startswith(content_type.v, ImageSlash)

\* return JSONResponse(content=analysis_result), inside the try of the handler
respond_analysis(analysis_result) ==
    IF \/ has_nonfinite(analysis_result.patient_id)
       \/ has_nonfinite(analysis_result.prescription)
    THEN HTTPException(500, InternalErrorPrefix \o ExcMessage("ValueError"))
    ELSE JSONResponse(analysis_result)

analyze_image(content_type, outcome) ==
    IF content_type_refused(content_type) THEN HTTPException(400, MustBeImage)
    ELSE IF outcome.fails = "file.read"
         THEN HTTPException(500, InternalErrorPrefix \o ExcMessage(outcome.fails))
    ELSE respond_analysis(analyze_image_with_ai(outcome))

\* an external call: its argument, and whether it raised
Call(name, arg, raised) == [call |-> name, arg |-> arg, raised |-> raised]

\* the external calls of one POST /analyze-image, in the order they are made
analyze_image_calls(content_type, outcome) ==
    LET names == <<"file.read", "Image.open", "generate_content", "response.text">>
        all == [i \in 1..4 |-> Call(names[i], PyNone, names[i] = outcome.fails)]
    IN  IF content_type_refused(content_type) THEN <<>>
        ELSE IF outcome.fails = "file.read" THEN SubSeq(all, 1, 1)
        ELSE IF outcome.fails = "Image.open" THEN SubSeq(all, 1, 2)
        ELSE IF outcome.fails = "generate_content" THEN SubSeq(all, 1, 3)
        ELSE all

(***************************************************************************)
(* POST /vector-search.  A distance is held in units of 1/10000 and a      *)
(* similarity in tenths of a percent, so that 100.0 is 1000.               *)
(***************************************************************************)
MaxDigits == 2

MaxRows == 2

MaxTopK == 2

Word_pid == <<"p", "i", "d">>

Word_patient == <<"p", "a", "t", "i", "e", "n", "t">>

RECURSIVE re_search_pid(_, _)
\* leftmost match of (?:pid|patient)\s*(\d+) at or after i: [found, group]
re_search_pid(s, i) ==
    LET after == IF Slice(s, i, 3) = Word_pid THEN i + 3
                 ELSE IF Slice(s, i, 7) = Word_patient THEN i + 7
                 ELSE 0
        first == SkipWs(s, after)
        last == SkipDigits(s, first) - 1
    IN  IF i > Len(s) THEN [found |-> FALSE, group |-> <<>>]
        ELSE IF after # 0 /\ At(s, first) \in Digits
             THEN [found |-> TRUE, group |-> SubSeq(s, first, last)]
        ELSE re_search_pid(s, i + 1)

\* mutant: the query is searched as typed, not lower-cased
pid_match_case_sensitive(question) == re_search_pid(question, 1)

\* pid_match = re.search(..., question.lower())
pid_match(question) == re_search_pid(str_lower(question), 1)

DigitChar(d) ==
    CASE d = 0 -> "0" [] d = 1 -> "1" [] d = 2 -> "2" [] d = 3 -> "3" [] d = 4 -> "4"
      [] d = 5 -> "5" [] d = 6 -> "6" [] d = 7 -> "7" [] d = 8 -> "8" [] d = 9 -> "9"

RECURSIVE StrOfNat(_)
\* str(n) of a non-negative int, as an f-string renders it
StrOfNat(n) ==
    IF n < 10 THEN <<DigitChar(n)>> ELSE Append(StrOfNat(n \div 10), DigitChar(n % 10))

\* round(n / m) to the nearest integer, a tie going to the even one
RoundHalfEven(n, m) ==
    LET q == n \div m
        r == n % m
    IN  IF 2 * r < m THEN q
        ELSE IF 2 * r > m THEN q + 1
        ELSE IF q % 2 = 0 THEN q
        ELSE q + 1

\* round((1 - distance) * 100, 1), in tenths of a percent
similarity_percent(distance) == RoundHalfEven(10000 - distance, 10)

NoPatientPrefix ==
    <<"N", "o", " ", "p", "a", "t", "i", "e", "n", "t", " ", "f", "o", "u", "n", "d", " ",
      "w", "i", "t", "h", " ", "P", "I", "D", " ">>

VectorErrorPrefix ==
    <<"V", "e", "c", "t", "o", "r", " ", "s", "e", "a", "r", "c", "h", " ",
      "e", "r", "r", "o", "r", ":", " ">>

\* the rows the warehouse table is made of; two of them share a PID
PatientRow(pid, first_name, last_name, age) ==
    [PID |-> pid, FirstName |-> first_name, LastName |-> last_name, Age |-> age,
     Gender |-> <<"F">>, Address |-> <<"P", "u", "n", "e">>,
     FirstVisit |-> <<"2", "0", "2", "4">>, Prescriptions |-> <<"a", "r", "n">>]

Rows ==
    { PatientRow(7, <<"A", "n", "n">>, <<"L", "e", "e">>, 34),
      PatientRow(7, <<"B", "o">>, <<"R", "a", "y">>, 51),
      PatientRow(70, <<"C", "y">>, <<"D", "a", "s">>, 8) }

\* sequences of at most n different members of S
DistinctSeqs(S, n) ==
    UNION { { f \in [1..k -> S] : \A a, b \in 1..k : a # b => f[a] # f[b] } : k \in 0..n }

Tables == DistinctSeqs(Rows, MaxRows)

\* df_written[df_written["PID"] == pid_number]
filter_pid(table, pid_number) == SelectSeq(table, LAMBDA row : row.PID = pid_number)

\* cosine distances, from identical (0) to opposite (20000)
Distances == {0, 2500, 10000, 15000}

HitRows == { row \in Rows : row.PID = 7 }

\* what the vector-search service can answer for top_k: at most top_k different
\* rows, each with its distance, in any order
Hits(top_k) ==
    { h \in DistinctSeqs(HitRows \X Distances, IF top_k > 0 THEN top_k ELSE 0) :
        \A a, b \in 1..Len(h) : a # b => h[a][1] # h[b][1] }

\* mutant: the rows stay in the order the service returned them
sort_values_unsorted(hits) == {hits}

\* sort_values: every order of the rows that ascends in distance
sort_values(hits) ==
    LET orders == { [i \in 1..Len(hits) |-> hits[f[i]]] :
                      f \in Permutations(1..Len(hits)) }
    IN  { h \in orders : \A i \in 1..Len(h) - 1 : h[i][2] <= h[i + 1][2] }

lookup_result(patient) ==
    [pid |-> patient.PID, first_name |-> patient.FirstName,
     last_name |-> patient.LastName, age |-> patient.Age, gender |-> patient.Gender,
     address |-> patient.Address, first_visit |-> patient.FirstVisit,
     prescriptions |-> patient.Prescriptions, similarity |-> 1000]

formatted_result(hit) ==
    [pid |-> hit[1].PID, first_name |-> hit[1].FirstName,
     last_name |-> hit[1].LastName, age |-> hit[1].Age, gender |-> hit[1].Gender,
     address |-> hit[1].Address, prescriptions |-> hit[1].Prescriptions,
     similarity |-> similarity_percent(hit[2]), distance |-> hit[2]]

formatted_results(results_pd) == [i \in 1..Len(results_pd) |-> formatted_result(results_pd[i])]

\* what the warehouse and the two services do for one search: fails names the
\* call that raises (empty: none does), table is what read_gbq returns, hits what
\* the vector-search service returns
SearchEnv(fails, table, hits) == [fails |-> fails, table |-> table, hits |-> hits]

LookupEnvs ==
    { SearchEnv("read_gbq", <<>>, <<>>) }
    \cup { SearchEnv("", table, <<>>) : table \in Tables }

SemanticEnvs(top_k) ==
    { SearchEnv(f, <<>>, <<>>) : f \in {"TextEmbeddingGenerator.predict", "vector_search"} }
    \cup { SearchEnv("", <<>>, hits) : hits \in Hits(top_k) }

\* the function returns a dict (value) or raises HTTPException 500 (http)
SearchReturns(value) == [raised |-> FALSE, value |-> value, http |-> HTTPException(0, <<>>)]

SearchRaises(exc) ==
    [raised |-> TRUE, value |-> [search_type |-> "error"],
     http |-> HTTPException(500, VectorErrorPrefix \o ExcMessage(exc))]

\* results_pd is the order sort_values left the hits in
vector_search_patients(question, top_k, env, results_pd) ==
    LET m == pid_match(question)
        pid_number == IntOfDigits(m.group, 0)
        results == filter_pid(env.table, pid_number)
    IN  IF m.found
        THEN IF env.fails = "read_gbq" THEN SearchRaises(env.fails)
             ELSE IF Len(results) = 0
                  THEN SearchReturns(
                         [search_type |-> "pid_lookup", query |-> question, results |-> <<>>,
                          message |-> NoPatientPrefix \o StrOfNat(pid_number)])
             ELSE SearchReturns(
                    [search_type |-> "pid_lookup", query |-> question,
                     results |-> <<lookup_result(results[1])>>, total_results |-> 1])
        ELSE IF env.fails # "" THEN SearchRaises(env.fails)
             ELSE SearchReturns(
                    [search_type |-> "vector_search", query |-> question,
                     results |-> formatted_results(results_pd),
                     total_results |-> Len(formatted_results(results_pd))])

\* the endpoint: the dict with search_date and status added, or the HTTPException
vector_search(query, top_k, env, results_pd) ==
    LET search_results == vector_search_patients(query, top_k, env, results_pd)
    IN  IF search_results.raised THEN search_results.http
        ELSE JSONResponse(search_results.value
                          @@ [search_date |-> Now, status |-> "success"])

\* the external calls of one POST /vector-search, in the order they are made
vector_search_calls(question, top_k, env) ==
    LET embed == "TextEmbeddingGenerator.predict"
    IN  IF pid_match(question).found
        THEN <<Call("read_gbq", PyNone, env.fails = "read_gbq")>>
        ELSE IF env.fails = embed THEN <<Call(embed, PyStr(question), TRUE)>>
        ELSE <<Call(embed, PyStr(question), FALSE),
               Call("vector_search", PyInt(top_k), env.fails = "vector_search")>>

\* the queries: a lead, a word, whitespace, a run of digits, a tail
DigitSeqs(n) == UNION { [1..k -> {"0", "7"}] : k \in 0..n }

Queries ==
    { lead \o word \o ws \o digits \o tail :
        lead \in {<<>>, <<"s", "h", "o", "w", " ", "m", "e", " ">>, <<"r", "a">>},
        word \in {Word_pid, <<"P", "I", "D">>, <<"P", "a", "t", "i", "e", "n", "t">>,
                  Word_patient \o <<"s">>, <<"p", "a", "i", "n">>},
        ws \in {<<>>, <<" ", "\n">>},
        digits \in DigitSeqs(MaxDigits),
        tail \in {<<>>, <<" ", "p", "i", "d", "7", "0">>} }

(***************************************************************************)
(* GET /patients.  The SQL text sent to the store is held as the three     *)
(* parts the handler decides: the ordering column, LIMIT and OFFSET.       *)
(***************************************************************************)
\* the builtins min and max on two ints
min(a, b) == IF a <= b THEN a ELSE b

max(a, b) == IF a >= b THEN a ELSE b

\* str(n) of an int
StrOfInt(n) == IF n < 0 THEN <<"-">> \o StrOfNat(0 - n) ELSE StrOfNat(n)

FetchPatientsPrefix ==
    <<"F", "a", "i", "l", "e", "d", " ", "t", "o", " ", "f", "e", "t", "c", "h", " ",
      "p", "a", "t", "i", "e", "n", "t", "s", ":", " ">>

\* the limit and offset parameters of the requests
Limits == {0 - 1, 0, 1, 2, 99, 100, 101, 500}

Offsets == {0 - 5, 0 - 1, 0, 1, 3}

\* mutant: the parameters go into the query as they came
patients_query_unclamped(limit, offset) ==
    [t |-> "sql", v |-> [order_by |-> "PID", limit |-> limit, offset |-> offset]]

\* limit = min(limit, 100); offset = max(offset, 0); ORDER BY PID LIMIT OFFSET
patients_query(limit, offset) ==
    [t |-> "sql",
     v |-> [order_by |-> "PID", limit |-> min(limit, 100), offset |-> max(offset, 0)]]

\* the store: every order of the table that ascends in PID
order_by_pid(table) ==
    LET orders == { [i \in 1..Len(table) |-> table[f[i]]] :
                      f \in Permutations(1..Len(table)) }
    IN  { o \in orders : \A i \in 1..Len(o) - 1 : o[i].PID <= o[i + 1].PID }

\* the store: LIMIT and OFFSET applied to the ordered rows
limit_offset(ordered, query) ==
    SubSeq(ordered, query.v.offset + 1, min(query.v.offset + query.v.limit, Len(ordered)))

\* the store refuses a negative LIMIT, or the read fails for a reason of its own
read_gbq_query_raises(query, env) == env.fails = "read_gbq_query" \/ query.v.limit < 0

\* one element of patients_data
listing_record(row) ==
    [registrationNo |-> StrOfInt(row.PID), firstName |-> row.FirstName,
     lastName |-> row.LastName, age |-> row.Age, gender |-> row.Gender,
     address |-> row.Address, firstVisitDate |-> row.FirstVisit,
     prescriptions |-> row.Prescriptions]

patients_data(df) == [i \in 1..Len(df) |-> listing_record(df[i])]

ListEnvs ==
    { SearchEnv("read_gbq_query", <<>>, <<>>) }
    \cup { SearchEnv("", table, <<>>) : table \in Tables }

\* ordered is the order the store put the table in
get_all_patients(limit, offset, env, ordered) ==
    IF read_gbq_query_raises(patients_query(limit, offset), env)
    THEN HTTPException(500, FetchPatientsPrefix \o ExcMessage("read_gbq_query"))
    ELSE JSONResponse(patients_data(limit_offset(ordered, patients_query(limit, offset))))

\* the external call of one GET /patients
get_all_patients_calls(limit, offset, env) ==
    <<Call("read_gbq_query", patients_query(limit, offset),
           read_gbq_query_raises(patients_query(limit, offset), env))>>

(***************************************************************************)
(* GET /patients/{pid} and POST /analyze-patient.                          *)
(***************************************************************************)
PatientWithPid ==
    <<"P", "a", "t", "i", "e", "n", "t", " ", "w", "i", "t", "h", " ", "P", "I", "D",
      " ">>

NotFoundSuffix ==
    <<" ", "n", "o", "t", " ", "f", "o", "u", "n", "d">>

RetrievePrefix ==
    <<"E", "r", "r", "o", "r", " ", "r", "e", "t", "r", "i", "e", "v", "i", "n", "g",
      " ", "p", "a", "t", "i", "e", "n", "t", " ", "d", "a", "t", "a", ":", " ">>

AiAnalysisPrefix ==
    <<"E", "r", "r", "o", "r", " ", "i", "n", " ", "A", "I", " ", "a", "n", "a", "l",
      "y", "s", "i", "s", ":", " ">>

FetchPatientPrefix ==
    <<"F", "a", "i", "l", "e", "d", " ", "t", "o", " ", "f", "e", "t", "c", "h", " ",
      "p", "a", "t", "i", "e", "n", "t", ":", " ">>

\* the pid parameters of the requests: some a row has, some no row has
Pids == {0 - 1, 0, 7, 8, 70}

\* the queries of POST /analyze-patient
PatientQueries == {<<>>, <<"d", "o", "s", "e">>}

\* the text the text-generation service answers with
Analysis == <<"r", "e", "s", "t">>

\* the dict get_patient_by_pid builds from the first row of the PID
patient_dict(patient_data) ==
    [pid |-> patient_data.PID, first_name |-> patient_data.FirstName,
     last_name |-> patient_data.LastName, age |-> patient_data.Age,
     gender |-> patient_data.Gender, address |-> patient_data.Address,
     first_visit |-> patient_data.FirstVisit,
     prescriptions |-> patient_data.Prescriptions, patient_description |-> <<>>]

\* what get_patient_by_pid does: it raises HTTPException 500 (http), returns
\* None (none), or returns the dict (value)
PatientRaises(exc) ==
    [raised |-> TRUE, none |-> FALSE, value |-> patient_dict(PatientRow(0, <<>>, <<>>, 0)),
     http |-> HTTPException(500, RetrievePrefix \o ExcMessage(exc))]

PatientNone ==
    [raised |-> FALSE, none |-> TRUE, value |-> patient_dict(PatientRow(0, <<>>, <<>>, 0)),
     http |-> HTTPException(0, <<>>)]

PatientReturns(patient_data) ==
    [raised |-> FALSE, none |-> FALSE, value |-> patient_dict(patient_data),
     http |-> HTTPException(0, <<>>)]

get_patient_by_pid(pid, env) ==
    IF env.fails = "read_gbq" THEN PatientRaises(env.fails)
    ELSE IF Len(filter_pid(env.table, pid)) = 0 THEN PatientNone
    ELSE PatientReturns(filter_pid(env.table, pid)[1])

\* raise HTTPException(status_code=404, detail=...) of the two handlers
patient_not_found(pid) ==
    HTTPException(404, PatientWithPid \o StrOfInt(pid) \o NotFoundSuffix)

formatted_patient(patient_data) ==
    [registrationNo |-> StrOfInt(patient_data.pid), firstName |-> patient_data.first_name,
     lastName |-> patient_data.last_name, age |-> patient_data.age,
     gender |-> patient_data.gender, address |-> patient_data.address,
     firstVisitDate |-> patient_data.first_visit,
     prescriptions |-> patient_data.prescriptions]

\* mutant: without the except HTTPException clause, the 404 reaches except Exception
get_patient_by_pid_endpoint_no_reraise(pid, env) ==
    IF get_patient_by_pid(pid, env).raised \/ get_patient_by_pid(pid, env).none
    THEN HTTPException(500, FetchPatientPrefix \o ExcMessage("HTTPException"))
    ELSE JSONResponse(formatted_patient(get_patient_by_pid(pid, env).value))

\* an HTTPException raised inside the try is raised again as it is
get_patient_by_pid_endpoint(pid, env) ==
    IF get_patient_by_pid(pid, env).raised THEN get_patient_by_pid(pid, env).http
    ELSE IF get_patient_by_pid(pid, env).none THEN patient_not_found(pid)
    ELSE JSONResponse(formatted_patient(get_patient_by_pid(pid, env).value))

\* analyze_patient_with_ai: the text of the service, or HTTPException 500
analyze_patient_with_ai(patient_data, query, env) ==
    IF env.fails = "GeminiTextGenerator.predict"
    THEN HTTPException(500, AiAnalysisPrefix \o ExcMessage(env.fails))
    ELSE JSONResponse(
           [analysis_date |-> Now, query |-> query, patient_data |-> patient_data,
            ai_analysis |-> Analysis, status |-> "success"])

analyze_patient(pid, query, env) ==
    IF get_patient_by_pid(pid, env).raised THEN get_patient_by_pid(pid, env).http
    ELSE IF get_patient_by_pid(pid, env).none THEN patient_not_found(pid)
    ELSE analyze_patient_with_ai(get_patient_by_pid(pid, env).value, query, env)

PatientEnvs ==
    { SearchEnv("read_gbq", <<>>, <<>>) }
    \cup { SearchEnv(f, table, <<>>) :
             f \in {"", "GeminiTextGenerator.predict"}, table \in Tables }

\* the external call of one GET /patients/{pid}
get_patient_by_pid_calls(pid, env) == <<Call("read_gbq", PyNone, env.fails = "read_gbq")>>

\* the external calls of one POST /analyze-patient, in the order they are made
analyze_patient_calls(pid, query, env) ==
    IF get_patient_by_pid(pid, env).raised \/ get_patient_by_pid(pid, env).none
    THEN get_patient_by_pid_calls(pid, env)
    ELSE Append(get_patient_by_pid_calls(pid, env),
                Call("GeminiTextGenerator.predict", PyStr(query),
                     env.fails = "GeminiTextGenerator.predict"))

(***************************************************************************)
(* GET /search.  Series.str.contains is called with its default            *)
(* regex=True: the search term is a regular expression.  Over the          *)
(* characters of the terms below, a period stands for any character but a  *)
(* newline, an unclosed parenthesis does not compile, and every other      *)
(* character stands for itself.                                            *)
(***************************************************************************)
QueryRequired ==
    <<"Q", "u", "e", "r", "y", " ", "p", "a", "r", "a", "m", "e", "t", "e", "r", " ",
      "'", "q", "'", " ", "i", "s", " ", "r", "e", "q", "u", "i", "r", "e", "d">>

SearchPatientsPrefix ==
    <<"F", "a", "i", "l", "e", "d", " ", "t", "o", " ", "s", "e", "a", "r", "c", "h",
      " ", "p", "a", "t", "i", "e", "n", "t", "s", ":", " ">>

\* the q parameters of the requests
SearchTerms ==
    { <<>>, <<" ">>, <<" ", "\n", "\t">>,
      <<"a", "n">>, <<"A", "N">>, <<" ", "A", "n", "n", " ">>, <<"l", "e", "e">>,
      <<"y">>, <<"z", "z">>, <<"P", "u", "n", "e">>, <<"u", "n">>,
      <<"7">>, <<"7", "0">>, <<"0">>,
      <<".">>, <<"e", ".">>, <<"7", ".">>, <<"(">> }

\* re.compile(pat) succeeds
re_compiles(pat) == \A k \in 1..Len(pat) : pat[k] # "("

\* the compiled pattern matches s at position i
re_match_at(pat, s, i) ==
    /\ i + Len(pat) - 1 <= Len(s)
    /\ \A k \in 1..Len(pat) :
        IF pat[k] = "." THEN s[i + k - 1] # "\n" ELSE s[i + k - 1] = pat[k]

\* one element of Series.str.contains(pat, na=False): re.search(pat, s) finds a match
str_contains(s, pat) == \E i \in 1..Len(s) + 1 : re_match_at(pat, s, i)

\* the mask of the handler on one row
mask(row, search_term) ==
    \/ str_contains(str_lower(row.FirstName), search_term)
    \/ str_contains(str_lower(row.LastName), search_term)
    \/ str_contains(StrOfInt(row.PID), search_term)
    \/ str_contains(str_lower(row.Address), search_term)

\* search_term = q.lower().strip()
search_term_of(q) == strip(str_lower(q))

\* df_pandas[mask]
masked(df_pandas, search_term) ==
    SelectSeq(df_pandas, LAMBDA row : mask(row, search_term))

SearchPatientsEnvs ==
    { SearchEnv("read_gbq", <<>>, <<>>) }
    \cup { SearchEnv("", table, <<>>) : table \in Tables }

search_patients_endpoint(q, env) ==
    IF strip(q) = <<>> THEN HTTPException(400, QueryRequired)
    ELSE IF env.fails = "read_gbq"
         THEN HTTPException(500, SearchPatientsPrefix \o ExcMessage(env.fails))
    ELSE IF ~re_compiles(search_term_of(q))
         THEN HTTPException(500, SearchPatientsPrefix \o ExcMessage("re.error"))
    ELSE JSONResponse(patients_data(masked(env.table, search_term_of(q))))

\* mutant: the table is read before q is looked at
search_patients_calls_read_first(q, env) ==
    <<Call("read_gbq", PyNone, env.fails = "read_gbq")>>

\* the external call of one GET /search
search_patients_calls(q, env) ==
    IF strip(q) = <<>> THEN <<>>
    ELSE <<Call("read_gbq", PyNone, env.fails = "read_gbq")>>

(***************************************************************************)
(* State.                                                                  *)
(***************************************************************************)
VARIABLES
    handler,    \* the operation whose outcome the state holds, idle between two
    request,    \* the request being answered
    reply,      \* the text the vision model answered with
    parsed,     \* what parse_ai_response did with it
    calls,      \* the external calls made for the request, in order
    df_written, \* the rows read_gbq returned for the request
    response    \* the HTTP response

vars == <<handler, request, reply, parsed, calls, df_written, response>>

NotCalled == Raised("not called")

NoRequest ==
    [endpoint |-> "", content_type |-> PyNone, query |-> <<>>, top_k |-> 0,
     limit |-> 0, offset |-> 0, pid |-> 0]

NoResponse == [status |-> 0, body |-> [detail |-> <<>>]]

Init ==
    /\ handler = "idle"
    /\ request = NoRequest
    /\ reply = NoReply
    /\ parsed = NotCalled
    /\ calls = <<>>
    /\ df_written = <<>>
    /\ response = NoResponse

\* a call of parse_ai_response on the text of a reply
ParseAiResponse ==
    /\ handler = "idle"
    /\ \E r \in Replies :
        /\ reply' = r
        /\ parsed' = parse_ai_response(r.text)
    /\ handler' = "parse_ai_response"
    /\ UNCHANGED <<request, calls, df_written, response>>

\* one POST /analyze-image, from the upload to the response
AnalyzeImage ==
    /\ handler = "idle"
    /\ \E content_type \in ContentTypes, outcome \in ImageOutcomes :
        LET made == analyze_image_calls(content_type, outcome)
            answered == made # <<>> /\ outcome.fails = ""
        IN  /\ request' = [NoRequest EXCEPT !.endpoint = "/analyze-image",
                                            !.content_type = content_type]
            /\ calls' = made
            /\ reply' = IF answered THEN outcome.reply ELSE NoReply
            /\ parsed' = IF answered THEN parse_ai_response(outcome.reply.text)
                         ELSE NotCalled
            /\ response' = analyze_image(content_type, outcome)
    /\ handler' = "analyze_image"
    /\ UNCHANGED df_written

\* one POST /vector-search, from the body to the response
VectorSearch ==
    /\ handler = "idle"
    /\ \E query \in Queries, top_k \in 0..MaxTopK :
        \E env \in LookupEnvs \cup SemanticEnvs(top_k) :
        \E results_pd \in sort_values(env.hits) :
            /\ request' = [NoRequest EXCEPT !.endpoint = "/vector-search",
                                            !.query = query, !.top_k = top_k]
            /\ calls' = vector_search_calls(query, top_k, env)
            /\ df_written' = IF pid_match(query).found THEN env.table ELSE <<>>
            /\ response' = vector_search(query, top_k, env, results_pd)
    /\ handler' = "vector_search"
    /\ UNCHANGED <<reply, parsed>>

\* one GET /patients, from the parameters to the response
GetAllPatients ==
    /\ handler = "idle"
    /\ \E limit \in Limits, offset \in Offsets, env \in ListEnvs :
        \E ordered \in order_by_pid(env.table) :
            /\ request' = [NoRequest EXCEPT !.endpoint = "/patients",
                                            !.limit = limit, !.offset = offset]
            /\ calls' = get_all_patients_calls(limit, offset, env)
            /\ df_written' = IF calls'[1].raised THEN <<>>
                              ELSE limit_offset(ordered, patients_query(limit, offset))
            /\ response' = get_all_patients(limit, offset, env, ordered)
    /\ handler' = "get_all_patients"
    /\ UNCHANGED <<reply, parsed>>

\* one GET /patients/{pid}, from the path parameter to the response
GetPatientByPid ==
    /\ handler = "idle"
    /\ \E pid \in Pids, env \in PatientEnvs :
        /\ env.fails # "GeminiTextGenerator.predict"
        /\ request' = [NoRequest EXCEPT !.endpoint = "/patients/{pid}", !.pid = pid]
        /\ calls' = get_patient_by_pid_calls(pid, env)
        /\ df_written' = env.table
        /\ response' = get_patient_by_pid_endpoint(pid, env)
    /\ handler' = "get_patient_by_pid_endpoint"
    /\ UNCHANGED <<reply, parsed>>

\* one POST /analyze-patient, from the body to the response
AnalyzePatient ==
    /\ handler = "idle"
    /\ \E pid \in Pids, query \in PatientQueries, env \in PatientEnvs :
        /\ request' = [NoRequest EXCEPT !.endpoint = "/analyze-patient",
                                        !.pid = pid, !.query = query]
        /\ calls' = analyze_patient_calls(pid, query, env)
        /\ df_written' = env.table
        /\ response' = analyze_patient(pid, query, env)
    /\ handler' = "analyze_patient"
    /\ UNCHANGED <<reply, parsed>>

\* one GET /search, from the parameter to the response
SearchPatients ==
    /\ handler = "idle"
    /\ \E q \in SearchTerms, env \in SearchPatientsEnvs :
        /\ request' = [NoRequest EXCEPT !.endpoint = "/search", !.query = q]
        /\ calls' = search_patients_calls(q, env)
        /\ df_written' = IF calls' = <<>> THEN <<>> ELSE env.table
        /\ response' = search_patients_endpoint(q, env)
    /\ handler' = "search_patients_endpoint"
    /\ UNCHANGED <<reply, parsed>>

\* the outcome is handed back and nothing of it is kept
Done ==
    /\ handler # "idle"
    /\ handler' = "idle"
    /\ request' = NoRequest
    /\ reply' = NoReply
    /\ parsed' = NotCalled
    /\ calls' = <<>>
    /\ df_written' = <<>>
    /\ response' = NoResponse

Next ==
    \/ ParseAiResponse
    \/ AnalyzeImage
    \/ VectorSearch
    \/ GetAllPatients
    \/ GetPatientByPid
    \/ AnalyzePatient
    \/ SearchPatients
    \/ Done

Spec == Init /\ [][Next]_vars

(***************************************************************************)
(* Properties.                                                             *)
(***************************************************************************)
IsStr(val, s) == val.t = "str" /\ val.v = s

RECURSIVE Contains(_, _, _)
\* sub occurs in s at or after i
Contains(s, sub, i) ==
    IF i + Len(sub) - 1 > Len(s) THEN FALSE
    ELSE SubSeq(s, i, i + Len(sub) - 1) = sub \/ Contains(s, sub, i + 1)

\* C1: parse_ai_response never raises: every call returns a pair of values.
C1_NeverRaises == handler = "parse_ai_response" => parsed.exc = ""

\* C2: on a well-formed object with string values X and Y, optionally fenced
\* (with or without the json tag) and surrounded by whitespace,
\* parse_ai_response returns exactly (X, Y).
C2_FencedObject ==
    (handler = "parse_ai_response" /\ reply.kind = "fenced_object")
    => /\ parsed.exc = ""
       /\ IsStr(parsed.patient_id, reply.x)
       /\ IsStr(parsed.prescription, reply.y)

C2_Witness ==
    /\ handler = "parse_ai_response"
    /\ reply.kind = "fenced_object"
    /\ startswith(reply.text, <<"\n">> \o FenceJson \o <<"\n", "{", "\n">>)
    /\ endswith(reply.text, Fence \o <<" ", "\n">>)
    /\ reply.x = <<"\"", "\n">>
    /\ IsStr(parsed.patient_id, reply.x)

\* C3: on text that does not parse as JSON, each of the two fields is the group
\* of the first match of its quoted pattern in the raw text, searched on its
\* own, and Not found when the text has no such entry.
C3_RegexFallback ==
    (/\ handler = "parse_ai_response"
     /\ reply.kind = "fragments"
     /\ ~json_loads(cleaned_analysis(reply.text)).ok)
    => /\ parsed.exc = ""
       /\ IsStr(parsed.patient_id, IF reply.has_x THEN reply.x ELSE NotFound)
       /\ IsStr(parsed.prescription, IF reply.has_y THEN reply.y ELSE NotFound)

C3_Witness ==
    /\ handler = "parse_ai_response"
    /\ reply.kind = "fragments"
    /\ ~json_loads(cleaned_analysis(reply.text)).ok
    /\ reply.has_x /\ ~reply.has_y
    /\ reply.x = <<"a", "\\">>
    /\ Contains(reply.text, <<":", "\n", " ", "\"">>, 1)
    /\ IsStr(parsed.patient_id, reply.x)
    /\ IsStr(parsed.prescription, NotFound)

\* C4: on text with neither a patient_id entry nor a prescription entry,
\* parse_ai_response returns (Not found, Not found).
C4_NeitherEntry ==
    (/\ handler = "parse_ai_response"
     /\ ~Contains(reply.text, Key_patient_id, 1)
     /\ ~Contains(reply.text, Key_prescription, 1))
    => /\ parsed.exc = ""
       /\ IsStr(parsed.patient_id, NotFound)
       /\ IsStr(parsed.prescription, NotFound)

\* C5: both components of what parse_ai_response returns are strings, and so
\* are the patient_id and prescription of every /analyze-image response.
C5_ComponentsAreStrings ==
    /\ (handler = "parse_ai_response" /\ parsed.exc = "")
       => parsed.patient_id.t = "str" /\ parsed.prescription.t = "str"
    /\ (handler = "analyze_image" /\ response.status = 200)
       => /\ response.body.patient_id.t = "str"
          /\ response.body.prescription.t = "str"

\* the image analysis was entered and one of its steps failed: the decoding,
\* the vision call, the reading of its text, or the parsing of the reply
AnalysisFailedIn ==
    /\ handler = "analyze_image"
    /\ Len(calls) >= 2
    /\ \/ calls[Len(calls)].raised
       \/ parsed.exc # ""

\* C6: when anything fails during image analysis, POST /analyze-image with an
\* image content type answers 200 with exactly the keys analysis_date,
\* patient_id and prescription, patient_id being Analysis failed and
\* prescription a text that describes the error.
C6_FailureAnswers200 ==
    AnalysisFailedIn
    => /\ response.status = 200
       /\ DOMAIN response.body = {"analysis_date", "patient_id", "prescription"}
       /\ IsStr(response.body.patient_id, AnalysisFailed)
       /\ response.body.prescription.t = "str"
       /\ startswith(response.body.prescription.v, ErrorPrefix)
       /\ Len(response.body.prescription.v) > Len(ErrorPrefix)

C6_Witness ==
    /\ AnalysisFailedIn
    /\ parsed.exc = "AttributeError"
    /\ response.status = 200
    /\ IsStr(response.body.patient_id, AnalysisFailed)

\* the positions of the lower-cased query where pid or patient stands, followed
\* by any whitespace and then a digit
PidTokens(q) ==
    { i \in 1..Len(q) :
        \E w \in {Word_pid, Word_patient} :
            /\ i + Len(w) - 1 <= Len(q)
            /\ SubSeq(q, i, i + Len(w) - 1) = w
            /\ \E d \in i + Len(w)..Len(q) :
                /\ q[d] \in Digits
                /\ \A k \in i + Len(w)..d - 1 : q[k] \in Whitespace }

Min(S) == CHOOSE x \in S : \A y \in S : x <= y

\* the first digit after position i, and the last digit of the run it starts
RunStart(q, i) == Min({ d \in i..Len(q) : q[d] \in Digits })

RunEnd(q, a) == Min({ e \in a..Len(q) : e = Len(q) \/ q[e + 1] \notin Digits })

RECURSIVE RunValue(_, _, _)
\* the number the digits q[a..b] write
RunValue(q, a, b) ==
    IF a > b THEN 0 ELSE RunValue(q, a, b - 1) * 10 + DigitVal(q[b])

\* the identifier of the first token of the query
FirstPid(query) ==
    LET q == str_lower(query)
        a == RunStart(q, Min(PidTokens(q)))
    IN  RunValue(q, a, RunEnd(q, a))

\* C7: the search is an identifier lookup exactly when the lower-cased query
\* has pid or patient followed by optional whitespace and digits, the
\* identifier then being the number of the digit run of the first such match;
\* every other query goes to the semantic search with its text unchanged.
C7_QueryClassifier ==
    handler = "vector_search"
    => IF PidTokens(str_lower(request.query)) # {}
       THEN /\ Len(calls) = 1 /\ calls[1].call = "read_gbq"
            /\ response.status = 200
               => /\ response.body.search_type = "pid_lookup"
                  /\ IF response.body.results = <<>>
                     THEN response.body.message
                          = NoPatientPrefix \o StrOfNat(FirstPid(request.query))
                     ELSE response.body.results[1].pid = FirstPid(request.query)
       ELSE /\ calls[1].call = "TextEmbeddingGenerator.predict"
            /\ IsStr(calls[1].arg, request.query)
            /\ response.status = 200
               => /\ response.body.search_type = "vector_search"
                  /\ response.body.query = request.query

C7_Witness ==
    /\ handler = "vector_search"
    /\ request.query = <<"s", "h", "o", "w", " ", "m", "e", " ", "P", "a", "t", "i", "e", "n", "t",
                         " ", "\n", "0", "7", " ", "p", "i", "d", "7", "0">>
    /\ response.status = 200
    /\ response.body.search_type = "pid_lookup"
    /\ Len(response.body.results) = 1
    /\ response.body.results[1].pid = 7

\* the query is an identifier lookup, the read succeeded, and no row has the PID
LookupOfAbsentPid ==
    /\ handler = "vector_search"
    /\ calls = <<Call("read_gbq", PyNone, FALSE)>>
    /\ \A i \in 1..Len(df_written) : df_written[i].PID # FirstPid(request.query)

\* C8: an identifier lookup for a PID no row has answers 200 with search_type
\* pid_lookup, no results, total_results 0 and a message.
C8_AbsentPidAnswer ==
    LookupOfAbsentPid
    => /\ response.status = 200
       /\ response.body.search_type = "pid_lookup"
       /\ response.body.results = <<>>
       /\ "message" \in DOMAIN response.body
       /\ "total_results" \in DOMAIN response.body
       /\ response.body.total_results = 0

\* C9: an identifier lookup carries at most one result, of similarity 100.0,
\* however many rows share the identifier; a semantic search carries at most
\* top_k results in ascending order of distance (descending similarity), and
\* total_results is their number.
C9_OutcomeShape ==
    (handler = "vector_search" /\ response.status = 200)
    => LET results == response.body.results
       IN  IF response.body.search_type = "pid_lookup"
           THEN /\ Len(results) <= 1
                /\ \A i \in 1..Len(results) : results[i].similarity = 1000
           ELSE /\ response.body.search_type = "vector_search"
                /\ Len(results) <= request.top_k
                /\ \A i \in 1..Len(results) - 1 :
                    /\ results[i].distance <= results[i + 1].distance
                    /\ results[i].similarity >= results[i + 1].similarity
                /\ response.body.total_results = Len(results)

C9_Witness ==
    /\ handler = "vector_search"
    /\ response.status = 200
    /\ response.body.search_type = "pid_lookup"
    /\ Len(df_written) = 2
    /\ \A i \in 1..2 : df_written[i].PID = FirstPid(request.query)
    /\ Len(response.body.results) = 1
    /\ response.body.results[1].first_name = df_written[1].FirstName
    /\ response.body.results[1].similarity = 1000

\* C10: the similarity of every result of a semantic search lies in [0, 100].
C10_SimilarityRange ==
    (/\ handler = "vector_search"
     /\ response.status = 200
     /\ response.body.search_type = "vector_search")
    => \A i \in 1..Len(response.body.results) :
        /\ response.body.results[i].similarity >= 0
        /\ response.body.results[i].similarity <= 1000

\* C11: for every integer limit and offset, the query GET /patients sends to
\* the store asks for min(limit, 100) rows at offset max(offset, 0), ordered by
\* PID: never more than 100 rows, never a negative offset.
C11_ClampedQuery ==
    handler = "get_all_patients"
    => /\ Len(calls) = 1
       /\ calls[1].call = "read_gbq_query"
       /\ calls[1].arg.v.order_by = "PID"
       /\ calls[1].arg.v.limit = (IF request.limit < 100 THEN request.limit ELSE 100)
       /\ calls[1].arg.v.offset = (IF request.offset > 0 THEN request.offset ELSE 0)
       /\ calls[1].arg.v.limit <= 100
       /\ calls[1].arg.v.offset >= 0

C11_Witness ==
    /\ handler = "get_all_patients"
    /\ request.limit = 500
    /\ request.offset = 0 - 5
    /\ calls[1].arg.v.limit = 100
    /\ calls[1].arg.v.offset = 0
    /\ response.status = 200
    /\ Len(response.body) = 2

\* the read of the table succeeded and no row has the requested pid
PidAbsent ==
    /\ handler \in {"get_patient_by_pid_endpoint", "analyze_patient"}
    /\ calls[1] = Call("read_gbq", PyNone, FALSE)
    /\ \A i \in 1..Len(df_written) : df_written[i].PID # request.pid

\* C12: when the read succeeds and no row has the requested pid, GET
\* /patients/{pid} and POST /analyze-patient answer 404 with a detail that
\* contains the pid (not 500), and POST /analyze-patient does not call the
\* text-generation service.
C12_UnknownPid404 ==
    PidAbsent
    => /\ response.status = 404
       /\ Contains(response.body.detail, StrOfInt(request.pid), 1)
       /\ \A i \in 1..Len(calls) : calls[i].call # "GeminiTextGenerator.predict"

C12_Witness ==
    /\ PidAbsent
    /\ handler = "analyze_patient"
    /\ request.pid = 8
    /\ Len(df_written) = 2
    /\ response.status = 404
    /\ response.body.detail = PatientWithPid \o <<"8">> \o NotFoundSuffix
    /\ Len(calls) = 1

\* q is not blank and the read of the table succeeded
SearchAnswered ==
    /\ handler = "search_patients_endpoint"
    /\ strip(request.query) # <<>>
    /\ calls = <<Call("read_gbq", PyNone, FALSE)>>

\* the lower-cased, trimmed q occurs in the first name, the last name, the
\* identifier as text or the address of the row, case ignored
HasSubstring(row, q) ==
    \/ Contains(str_lower(row.FirstName), strip(str_lower(q)), 1)
    \/ Contains(str_lower(row.LastName), strip(str_lower(q)), 1)
    \/ Contains(StrOfInt(row.PID), strip(str_lower(q)), 1)
    \/ Contains(str_lower(row.Address), strip(str_lower(q)), 1)

\* C13: for every non-blank q, GET /search returns exactly the records of the
\* table whose first name, last name, identifier as text or address contains q
\* as a substring, case ignored: every such record and no other.
C13_SubstringSearch ==
    SearchAnswered
    => /\ response.status = 200
       /\ response.body
          = patients_data(SelectSeq(df_written, LAMBDA row : HasSubstring(row, request.query)))

\* the request fails the validation of its handler
FailsValidation ==
    \/ handler = "analyze_image" /\ content_type_refused(request.content_type)
    \/ handler = "search_patients_endpoint" /\ strip(request.query) = <<>>

\* C14: a request that fails validation is answered 400 before any external
\* call: POST /analyze-image with a missing or non-image content type reads no
\* file and calls no vision service, GET /search with an empty or blank q reads
\* no table.
C14_RefusedBeforeCalls ==
    FailsValidation
    => /\ response.status = 400
       /\ calls = <<>>
       /\ df_written = <<>>
       /\ parsed = NotCalled

C14_Witness ==
    /\ handler = "search_patients_endpoint"
    /\ request.query = <<" ", "\n", "\t">>
    /\ response = HTTPException(400, QueryRequired)
    /\ calls = <<>>

====
